---- MODULE Spec2Model ----
(***************************************************************************)
(* Model of the MyCourses utility scripts: scraper.py (cookie based page   *)
(* fetch), scraper_selenium.py (browser login that stores the cookie) and  *)
(* fetch_calendar.py (calendar feed fetch).  The persistent state is the   *)
(* config file config.json, the calendar url file and the debug file; a    *)
(* behaviour is a sequence of script runs over these files.                *)
(***************************************************************************)
EXTENDS Integers, Sequences, FiniteSets, TLC

VARIABLES
    config,        \* content of config.json on disk
    debugFile,     \* content of debug_calendar.ics on disk
    urlFile,       \* content of calendar_feed_url.txt on disk
    pc,            \* position of the running script
    script,        \* which script the current (or last) run executes
    runs,          \* number of runs started so far
    cookie_value,  \* value get_cookie returned to main
    prompted,      \* get_cookie asked the operator for the cookie in this run
    nsaves,        \* save_config calls made by the current run
    loaded,        \* last load_config call: the file it read and what it returned
    response,      \* outcome of the run's requests.get
    branch,        \* path scrape_page took in the run
    requests,      \* HTTP requests issued by the current run
    exitcode,      \* process exit code of the last finished run (-1: running)
    exception,     \* uncaught exception that ended the last run ("none" if none)
    completed,     \* the last run reached its final "completed" message
    prev,          \* summary of the run before the current one
    ics_data,      \* payload fetch_calendar_data returned
    calendar,      \* what parse_calendar_events returned
    presented,     \* events display_events printed, in order
    site,          \* the pages the course site can answer with
    feed,          \* which calendar feed the url names: "any" or "sample"
    html_content,  \* page handed to parse_and_display in the current run
    shown          \* activities parse_and_display printed

vars == <<config, debugFile, urlFile, pc, script, runs, cookie_value, prompted,
          nsaves, loaded, response, branch, requests, exitcode, exception, completed,
          prev, ics_data, calendar, presented, site, feed, html_content, shown>>

(***************************************************************************)
(* Bounds of the model.                                                    *)
(***************************************************************************)
MaxRuns == 3
MaxInputLen == 2
MaxEvents == 3
MaxTime == 2
MaxActivities == 12

(***************************************************************************)
(* Text.  A string is a sequence of characters.                            *)
(***************************************************************************)
Chars == {" ", "a"}

Empty == <<>>

RECURSIVE lstrip(_)
lstrip(s) == IF s # <<>> /\ Head(s) = " " THEN lstrip(Tail(s)) ELSE s

RECURSIVE rstrip(_)
rstrip(s) ==
    IF s # <<>> /\ s[Len(s)] = " " THEN rstrip(SubSeq(s, 1, Len(s) - 1)) ELSE s

strip(s) == rstrip(lstrip(s))

SeqsUpTo(S, n) == UNION {[1..k -> S] : k \in 0..n}

Inputs == SeqsUpTo(Chars, MaxInputLen)

(***************************************************************************)
(* Python values json.load can return, and the config file.                *)
(***************************************************************************)
Keys == {"MoodleSession", "model"}

EmptyMap == [k \in {} |-> Empty]

PyDict(m) == [type |-> "dict", map |-> m, has |-> "MoodleSession" \in DOMAIN m]

\* a list, string, number or null; has: the list holds the element
\* "MoodleSession" / the string holds it as a substring
PyOther(t, h) == [type |-> t, map |-> EmptyMap, has |-> h]

StoredValues == {Empty, <<"a">>, <<"a", "a">>}

\* the mappings a config file may hold: an optional session token and an
\* optional other configuration key
Mappings ==
    {m \in UNION {[D -> StoredValues] : D \in SUBSET Keys} :
        "model" \in DOMAIN m => m["model"] = <<"a">>}

NonMappings ==
    {PyOther(t, h) : t \in {"list", "str"}, h \in BOOLEAN}
        \cup {PyOther("num", FALSE), PyOther("null", FALSE)}

FileAbsent == [kind |-> "absent", value |-> PyOther("null", FALSE)]

FileGarbage == [kind |-> "text", value |-> PyOther("null", FALSE)]

json_dump(value) == [kind |-> "json", value |-> value]

ConfigFiles ==
    {FileAbsent, FileGarbage}
        \cup {json_dump(PyDict(m)) : m \in Mappings}
        \cup {json_dump(v) : v \in NonMappings}

Returned(v) == [raised |-> "none", value |-> v]

Raised(e) == [raised |-> e, value |-> PyOther("null", FALSE)]

\* json.load: JSONDecodeError on text that is not JSON, else the parsed value
json_load(file) ==
    IF file.kind = "json" THEN Returned(file.value) ELSE Raised("JSONDecodeError")


(***************************************************************************)
(* scraper.py: the credential store.                                       *)
(***************************************************************************)
\* load_config of scraper.py
load_config(file) ==
    IF file.kind # "absent"
    THEN LET r == json_load(file)
         IN  IF r.raised = "JSONDecodeError" THEN Returned(PyDict(EmptyMap)) ELSE r
    ELSE Returned(PyDict(EmptyMap))

\* save_config: the whole file is rewritten with the dumped value
save_config(value) == json_dump(value)

\* what a call of get_cookie does: the value it returns or the exception that
\* leaves it, whether it prompted, and the config file afterwards
CookieResult(raised, value, asked, file, saves) ==
    [raised |-> raised, value |-> value, prompted |-> asked, file |-> file,
     nsaves |-> saves]

\* get_cookie's prompt path without the save_config call
get_cookie_prompt_no_save(file, cfg, inp) ==
    LET cookie == strip(inp)
    IN  IF cookie = Empty
        THEN CookieResult("SystemExit", Empty, TRUE, file, 0)
        ELSE IF cfg.type # "dict"
        THEN CookieResult("TypeError", Empty, TRUE, file, 0)
        ELSE CookieResult("none", cookie, TRUE, file, 0)

get_cookie_prompt(file, cfg, inp) ==
    LET cookie == strip(inp)
    IN  IF cookie = Empty
        THEN CookieResult("SystemExit", Empty, TRUE, file, 0)
        ELSE IF cfg.type # "dict"
        THEN CookieResult("TypeError", Empty, TRUE, file, 0)
        ELSE LET m == [k \in DOMAIN cfg.map \cup {"MoodleSession"} |->
                          IF k = "MoodleSession" THEN cookie ELSE cfg.map[k]]
             IN  CookieResult("none", cookie, TRUE, save_config(PyDict(m)), 1)

\* get_cookie without the lookup of the stored cookie
get_cookie_always_prompt(file, inp) ==
    LET cfg == load_config(file).value
    IN  IF cfg.type \in {"num", "null"}
        THEN CookieResult("TypeError", Empty, FALSE, file, 0)
        ELSE get_cookie_prompt(file, cfg, inp)

get_cookie(file, inp) ==
    LET cfg == load_config(file).value
    IN  IF cfg.type \in {"num", "null"}
        THEN CookieResult("TypeError", Empty, FALSE, file, 0)
        ELSE IF cfg.has
        THEN IF cfg.type # "dict"
             THEN CookieResult("TypeError", Empty, FALSE, file, 0)
             ELSE IF cfg.map["MoodleSession"] # Empty
             THEN CookieResult("none", cfg.map["MoodleSession"], FALSE, file, 0)
             ELSE get_cookie_prompt(file, cfg, inp)
        ELSE get_cookie_prompt(file, cfg, inp)


(***************************************************************************)
(* scraper.py: the fetcher.                                                *)
(***************************************************************************)
TARGET_URL == "https://mycourses.aalto.fi/course/view.php?id=47384"

LoginPage == "https://mycourses.aalto.fi/login/index.php"

LoginPageUpper == "https://mycourses.aalto.fi/Login/index.php"

Urls == {TARGET_URL, LoginPage, LoginPageUpper}

Statuses == {200, 401, 404, 500}

\* str.lower() on the urls of the model
lower(url) == IF url = LoginPageUpper THEN LoginPage ELSE url

\* "login" in response.url.lower()
IsLoginUrl(url) == lower(url) = LoginPage

NoResponse == [kind |-> "none", status |-> 0, url |-> ""]

\* what requests.get can do: raise Timeout or ConnectionError, or return a
\* response with a status and the final url after redirects
Responses ==
    {[kind |-> k, status |-> 0, url |-> ""] : k \in {"Timeout", "ConnectionError"}}
        \cup {[kind |-> "response", status |-> st, url |-> u] :
                  st \in Statuses, u \in Urls}

\* response.raise_for_status()
raise_for_status(resp) ==
    IF resp.status >= 400 /\ resp.status < 600 THEN "HTTPError" ELSE "none"

\* the purge writing an empty mapping instead of the loaded one without the
\* cookie
purge_cookie_clear(file) ==
    LET cfg == load_config(file).value
    IN  IF cfg.type \in {"num", "null"}
        THEN [raised |-> "TypeError", file |-> file, nsaves |-> 0]
        ELSE IF cfg.has
        THEN IF cfg.type # "dict"
             THEN [raised |-> "TypeError", file |-> file, nsaves |-> 0]
             ELSE [raised |-> "SystemExit", file |-> save_config(PyDict(EmptyMap)),
                   nsaves |-> 1]
        ELSE [raised |-> "SystemExit", file |-> file, nsaves |-> 0]

\* the purge of the stored cookie in scrape_page's login branch
purge_cookie(file) ==
    LET cfg == load_config(file).value
    IN  IF cfg.type \in {"num", "null"}
        THEN [raised |-> "TypeError", file |-> file, nsaves |-> 0]
        ELSE IF cfg.has
        THEN IF cfg.type # "dict"
             THEN [raised |-> "TypeError", file |-> file, nsaves |-> 0]
             ELSE LET m == [k \in DOMAIN cfg.map \ {"MoodleSession"} |-> cfg.map[k]]
                  IN  [raised |-> "SystemExit", file |-> save_config(PyDict(m)),
                       nsaves |-> 1]
        ELSE [raised |-> "SystemExit", file |-> file, nsaves |-> 0]

\* scrape_page with the purge also done when raise_for_status raises
scrape_page_purge_on_error(file, resp) ==
    IF resp.kind # "response"
    THEN [branch |-> "request_exception", raised |-> "SystemExit", file |-> file,
          nsaves |-> 0]
    ELSE IF raise_for_status(resp) # "none"
    THEN [branch |-> "request_exception"] @@ purge_cookie(file)
    ELSE IF IsLoginUrl(resp.url)
    THEN [branch |-> "login"] @@ purge_cookie(file)
    ELSE [branch |-> "text", raised |-> "none", file |-> file, nsaves |-> 0]

\* scrape_page: branch is the path taken; raised "none" means the text is
\* returned, "SystemExit" is sys.exit(1)
scrape_page(file, resp) ==
    IF resp.kind # "response"
    THEN [branch |-> "request_exception", raised |-> "SystemExit", file |-> file,
          nsaves |-> 0]
    ELSE IF raise_for_status(resp) # "none"
    THEN [branch |-> "request_exception", raised |-> "SystemExit", file |-> file,
          nsaves |-> 0]
    ELSE IF IsLoginUrl(resp.url)
    THEN [branch |-> "login"] @@ purge_cookie(file)
    ELSE [branch |-> "text", raised |-> "none", file |-> file, nsaves |-> 0]


(***************************************************************************)
(* fetch_calendar.py.                                                      *)
(***************************************************************************)
\* datetime.min, the key of an event without a start; it is a naive datetime
DatetimeMin == 0

\* Event.begin: None, or a time that is timezone-aware or naive
NoBegin == [has |-> FALSE, t |-> 0, aware |-> FALSE]

Begins ==
    {NoBegin} \cup {[has |-> TRUE, t |-> t, aware |-> a] : t \in 1..MaxTime,
                                                            a \in BOOLEAN}

\* the events of a calendar, in the order list(calendar.events) yields them
EventLists ==
    {[i \in DOMAIN bs |-> [id |-> i, begin |-> bs[i]]] : bs \in SeqsUpTo(Begins, MaxEvents)}

\* a response body: its text, whether the calendar parser accepts it, and
\* the events the parser makes of it
NoPayload == [wellformed |-> FALSE, text |-> "", events |-> <<>>]

Payloads ==
    {NoPayload}
        \cup {[wellformed |-> FALSE, text |-> x, events |-> <<>>] :
                 x \in {"<html>", "BEGIN:VCALENDAR"}}
        \cup {[wellformed |-> TRUE, text |-> "BEGIN:VCALENDAR..END:VCALENDAR",
               events |-> es] : es \in EventLists}

None == [isNone |-> TRUE, data |-> NoPayload]

Some(p) == [isNone |-> FALSE, data |-> p]

\* truth value of an Optional[str]
Truthy(x) == ~x.isNone /\ x.data.text # ""

\* calendar_feed_url.txt: missing, unreadable, blank, not an http(s) url, or
\* an http(s) url
UrlFiles == {"absent", "unreadable", "blank", "ftp://feed", "https://feed"}

\* load_calendar_url: TRUE when a url is returned, FALSE for None
load_calendar_url(file) ==
    IF file = "absent" THEN FALSE
    ELSE IF file = "unreadable" THEN FALSE
    ELSE IF file = "blank" THEN FALSE
    ELSE IF file # "https://feed" THEN FALSE
    ELSE TRUE

\* what requests.get(url, timeout=10) can do for a feed that answers with
\* one of bodies
FeedResponsesOf(bodies) ==
    {[resp |-> r, body |-> NoPayload] : r \in {x \in Responses : x.kind # "response"}}
        \cup {[resp |-> [kind |-> "response", status |-> st, url |-> "https://feed"],
               body |-> b] : st \in Statuses, b \in bodies}

FeedResponses == FeedResponsesOf(Payloads)

\* fetch_calendar_data
fetch_calendar_data(fr) ==
    IF fr.resp.kind = "Timeout" THEN None
    ELSE IF fr.resp.kind = "ConnectionError" THEN None
    ELSE IF raise_for_status(fr.resp) # "none" THEN None
    ELSE Some(fr.body)

NoCalendar == [ok |-> FALSE, events |-> <<>>]

\* Path("debug_calendar.ics").write_text(ics_data)
write_text(data) == [exists |-> TRUE, content |-> data]

\* parse_calendar_events that keeps a debug file that is already there
parse_calendar_events_keep_old(data, file) ==
    IF data.wellformed
    THEN [calendar |-> [ok |-> TRUE, events |-> data.events], debug |-> file]
    ELSE [calendar |-> NoCalendar,
          debug |-> IF file.exists THEN file ELSE write_text(data)]

\* parse_calendar_events: the calendar or None, and the debug file afterwards
parse_calendar_events(data, file) ==
    IF data.wellformed
    THEN [calendar |-> [ok |-> TRUE, events |-> data.events], debug |-> file]
    ELSE [calendar |-> NoCalendar, debug |-> write_text(data)]

\* the sort key of display_events: e.begin if e.begin else datetime.min
SortKey(e) ==
    IF e.begin.has THEN [t |-> e.begin.t, aware |-> e.begin.aware]
    ELSE [t |-> DatetimeMin, aware |-> FALSE]

\* comparing a timezone-aware time with a naive one raises TypeError
Comparable(k1, k2) == k1.aware = k2.aware

\* list.insert keeping the order of equal keys (sorted is stable)
RECURSIVE InsertByKey(_, _)
InsertByKey(e, s) ==
    IF s = <<>> THEN <<e>>
    ELSE IF SortKey(e).t < SortKey(s[Len(s)]).t
    THEN Append(InsertByKey(e, SubSeq(s, 1, Len(s) - 1)), s[Len(s)])
    ELSE Append(s, e)

RECURSIVE StableSort(_)
StableSort(s) ==
    IF s = <<>> THEN <<>>
    ELSE InsertByKey(s[Len(s)], StableSort(SubSeq(s, 1, Len(s) - 1)))

\* sorted(events, key=...)
sorted(events) ==
    IF \E i, j \in DOMAIN events : ~Comparable(SortKey(events[i]), SortKey(events[j]))
    THEN [raised |-> "TypeError", value |-> <<>>]
    ELSE [raised |-> "none", value |-> StableSort(events)]

NotDisplayed == [called |-> FALSE, events |-> <<>>]

\* display_events: the events printed, in order
display_events(cal) ==
    IF cal.events = <<>>
    THEN [raised |-> "none", value |-> <<>>]
    ELSE sorted(cal.events)

(***************************************************************************)
(* parse_and_display: the activity list.                                   *)
(***************************************************************************)
\* a page, as far as the activity list reads it: whether the main content
\* area (div#region-main or main) is found, the number of li.activity
\* entries of the page (inside the main content area when there is one), and
\* which entry (0: none) lacks span.instancename
Docs ==
    {d \in [main : {TRUE}, n : 0..MaxActivities, unnamed : 0..MaxActivities] :
        d.unnamed <= d.n}
        \cup [main : {FALSE}, n : 0..MaxActivities, unnamed : {0}]

NoDoc == [main |-> FALSE, n |-> 0, unnamed |-> 0]

\* activities[:10]
ActivityCap == 10

NotShown == [called |-> FALSE, listed |-> <<>>, reported |-> FALSE, more |-> 0]

\* the entry numbers printed by the loop over the first entries
ListedOf(doc, cap) ==
    LET k == IF doc.n < cap THEN doc.n ELSE cap
    IN  SelectSeq([i \in 1..k |-> i], LAMBDA i : i # doc.unnamed)

\* parse_and_display printing the "more" line from the cap on
parse_and_display_more_at_cap(doc) ==
    IF doc.main /\ doc.n > 0
    THEN [called |-> TRUE, listed |-> ListedOf(doc, ActivityCap),
          reported |-> doc.n >= ActivityCap,
          more |-> IF doc.n >= ActivityCap THEN doc.n - ActivityCap ELSE 0]
    ELSE [NotShown EXCEPT !.called = TRUE]

\* parse_and_display of scraper.py: the numbers of the entries printed by
\* name, and the "... and N more" line
parse_and_display(doc) ==
    IF doc.main /\ doc.n > 0
    THEN [called |-> TRUE, listed |-> ListedOf(doc, ActivityCap),
          reported |-> doc.n > ActivityCap,
          more |-> IF doc.n > ActivityCap THEN doc.n - ActivityCap ELSE 0]
    ELSE [NotShown EXCEPT !.called = TRUE]

\* parse_and_display of scraper_selenium.py
selenium_parse_and_display(doc) ==
    IF doc.main /\ doc.n > 0
    THEN [called |-> TRUE, listed |-> ListedOf(doc, ActivityCap),
          reported |-> doc.n > ActivityCap,
          more |-> IF doc.n > ActivityCap THEN doc.n - ActivityCap ELSE 0]
    ELSE [NotShown EXCEPT !.called = TRUE]

(***************************************************************************)
(* State of the runs.                                                      *)
(***************************************************************************)
NoLoad == [by |-> "none", file |-> FileAbsent, result |-> Returned(PyDict(EmptyMap))]

NoPrev == [valid |-> FALSE, script |-> "none", response |-> NoResponse,
           branch |-> "none", exitcode |-> 0]

CanStart == pc \in {"idle", "exited"} /\ runs < MaxRuns

\* a run starts: the summary of the run before it is kept in prev; the
\* starting action resets what the earlier process held in memory
Start(name) ==
    /\ CanStart
    /\ script' = name
    /\ runs' = runs + 1
    /\ prev' = IF runs = 0 THEN NoPrev
               ELSE [valid |-> TRUE, script |-> script, response |-> response,
                     branch |-> branch, exitcode |-> exitcode]

\* the process ends: sys.exit(code), falling off main (code 0), or an
\* uncaught exception (the interpreter exits with code 1)
Exit(raised, done) ==
    /\ pc' = "exited"
    /\ exitcode' = IF raised \in {"none", "SystemExit0"} THEN 0 ELSE 1
    /\ exception' = IF raised \in {"none", "SystemExit", "SystemExit0"}
                    THEN "none" ELSE raised
    /\ completed' = done

Continue(next) ==
    /\ pc' = next
    /\ exitcode' = -1
    /\ exception' = "none"
    /\ completed' = FALSE

calendarVars == <<debugFile, urlFile, feed, ics_data, calendar, presented>>

pageVars == <<site, html_content, shown>>

(***************************************************************************)
(* scraper.py: main, one action per call it makes.                         *)
(***************************************************************************)
ScraperGetCookie ==
    /\ Start("scraper")
    /\ \E inp \in Inputs :
          LET r == get_cookie(config, inp)
          IN  /\ config' = r.file
              /\ cookie_value' = r.value
              /\ prompted' = r.prompted
              /\ nsaves' = r.nsaves
              /\ loaded' = [by |-> "scraper", file |-> config,
                            result |-> load_config(config)]
              /\ IF r.raised = "none"
                 THEN Continue("scrape_page")
                 ELSE Exit(r.raised, FALSE)
    /\ response' = NoResponse
    /\ branch' = "none"
    /\ requests' = 0
    /\ html_content' = NoDoc
    /\ shown' = NotShown
    /\ ics_data' = None
    /\ calendar' = NoCalendar
    /\ presented' = NotDisplayed
    /\ UNCHANGED <<site, feed, debugFile, urlFile>>

\* scrape_page called once more by main after a first request that failed
ScraperScrapePageRetry ==
    /\ pc = "scrape_page"
    /\ \E resp \in Responses :
          LET r == scrape_page(config, resp)
          IN  /\ response' = resp
              /\ branch' = r.branch
              /\ config' = r.file
              /\ nsaves' = nsaves + r.nsaves
              /\ loaded' = IF r.branch = "login"
                            THEN [by |-> "scraper", file |-> config,
                                  result |-> load_config(config)]
                            ELSE loaded
              /\ IF r.raised = "none"
                 THEN /\ Continue("parse_and_display")
                      /\ \E doc \in site : html_content' = doc
                 ELSE /\ IF requests = 0
                         THEN Continue("scrape_page")
                         ELSE Exit(r.raised, FALSE)
                      /\ html_content' = html_content
    /\ requests' = requests + 1
    /\ UNCHANGED <<script, runs, prev, cookie_value, prompted, site, shown>>
    /\ UNCHANGED calendarVars

\* scrape_page as main calls it: one requests.get, counted in requests
ScraperScrapePage ==
    /\ pc = "scrape_page"
    /\ \E resp \in Responses :
          LET r == scrape_page(config, resp)
          IN  /\ response' = resp
              /\ branch' = r.branch
              /\ config' = r.file
              /\ nsaves' = nsaves + r.nsaves
              /\ loaded' = IF r.branch = "login"
                            THEN [by |-> "scraper", file |-> config,
                                  result |-> load_config(config)]
                            ELSE loaded
              /\ IF r.raised = "none"
                 THEN /\ Continue("parse_and_display")
                      /\ \E doc \in site : html_content' = doc
                 ELSE /\ Exit(r.raised, FALSE)
                      /\ html_content' = html_content
    /\ requests' = requests + 1
    /\ UNCHANGED <<script, runs, prev, cookie_value, prompted, site, shown>>
    /\ UNCHANGED calendarVars

ScraperParseAndDisplay ==
    /\ pc = "parse_and_display"
    /\ shown' = parse_and_display(html_content)
    /\ Exit("none", TRUE)
    /\ UNCHANGED <<config, script, runs, prev, cookie_value, prompted, nsaves,
                   loaded, response, branch, requests, site, html_content>>
    /\ UNCHANGED calendarVars

(***************************************************************************)
(* scraper_selenium.py.                                                    *)
(***************************************************************************)
\* load_config of scraper_selenium.py
selenium_load_config(file) ==
    LET r == IF file.kind = "absent" THEN Raised("FileNotFoundError")
             ELSE json_load(file)
    IN  IF r.raised \in {"FileNotFoundError", "JSONDecodeError"}
        THEN Returned(PyDict(EmptyMap))
        ELSE r

\* the browser's cookie jar, as far as save_cookies_to_config reads it:
\* whether a MoodleSession cookie is there, and its value
BrowserCookies ==
    {[present |-> FALSE, value |-> Empty]}
        \cup {[present |-> TRUE, value |-> v] : v \in StoredValues}

\* save_cookies_to_config testing the cookie with "is not None"
save_cookies_to_config_not_none(file, jar) ==
    IF jar.present
    THEN LET cfg == selenium_load_config(file).value
         IN  IF cfg.type # "dict"
             THEN [raised |-> "TypeError", file |-> file, nsaves |-> 0,
                   loads |-> 1]
             ELSE LET m == [k \in DOMAIN cfg.map \cup {"MoodleSession"} |->
                               IF k = "MoodleSession" THEN jar.value
                               ELSE cfg.map[k]]
                  IN  [raised |-> "none", file |-> save_config(PyDict(m)),
                       nsaves |-> 1, loads |-> 1]
    ELSE [raised |-> "none", file |-> file, nsaves |-> 0, loads |-> 0]

\* save_cookies_to_config
save_cookies_to_config(file, jar) ==
    LET moodle_session == IF jar.present THEN jar.value ELSE Empty
    IN  IF moodle_session # Empty
        THEN LET cfg == selenium_load_config(file).value
             IN  IF cfg.type # "dict"
                 THEN [raised |-> "TypeError", file |-> file, nsaves |-> 0,
                       loads |-> 1]
                 ELSE LET m == [k \in DOMAIN cfg.map \cup {"MoodleSession"} |->
                                   IF k = "MoodleSession" THEN moodle_session
                                   ELSE cfg.map[k]]
                      IN  [raised |-> "none", file |-> save_config(PyDict(m)),
                           nsaves |-> 1, loads |-> 1]
        ELSE [raised |-> "none", file |-> file, nsaves |-> 0, loads |-> 0]

\* what the operator types at "Continue? (y/n): "
Answers == {<<"y">>, <<"Y">>, <<" ", "y">>, <<"n">>, <<>>}

lower_answer(s) == [i \in DOMAIN s |-> IF s[i] = "Y" THEN "y" ELSE s[i]]

\* where the browser ends up: on the course page, on the login page until the
\* operator logs in, on the login page for good, or driver.get raises
Navigations == {"course", "login_then_course", "still_login", "WebDriverException"}

\* main and scrape_with_browser: an exception inside the try block is
\* caught and turned into sys.exit(1)
selenium_main(file, answer, driverOk, nav, jar) ==
    LET stay == [raised |-> "SystemExit", file |-> file, nsaves |-> 0, loads |-> 0]
    IN  IF lower_answer(strip(answer)) # <<"y">>
        THEN [stay EXCEPT !.raised = "SystemExit0"]
        ELSE IF ~driverOk \/ nav \in {"still_login", "WebDriverException"}
        THEN stay
        ELSE LET r == save_cookies_to_config(file, jar)
             IN  IF r.raised # "none" THEN [r EXCEPT !.raised = "SystemExit"] ELSE r

SeleniumRun ==
    /\ Start("selenium")
    /\ \E answer \in Answers, driverOk \in BOOLEAN, nav \in Navigations,
          jar \in BrowserCookies :
          LET r == selenium_main(config, answer, driverOk, nav, jar)
          IN  /\ config' = r.file
              /\ nsaves' = r.nsaves
              /\ loaded' = IF r.loads > 0
                            THEN [by |-> "selenium", file |-> config,
                                  result |-> selenium_load_config(config)]
                            ELSE loaded
              /\ prompted' = FALSE
              /\ Exit(r.raised, r.raised = "none")
              /\ IF r.raised = "none"
                 THEN \E doc \in site :
                         /\ html_content' = doc
                         /\ shown' = selenium_parse_and_display(doc)
                 ELSE /\ html_content' = NoDoc
                      /\ shown' = NotShown
    /\ cookie_value' = Empty
    /\ response' = NoResponse
    /\ branch' = "none"
    /\ requests' = 0
    /\ ics_data' = None
    /\ calendar' = NoCalendar
    /\ presented' = NotDisplayed
    /\ UNCHANGED <<site, feed, debugFile, urlFile>>

(***************************************************************************)
(* Specification of the runs of scraper.py and scraper_selenium.py over    *)
(* one config file.                                                        *)
(***************************************************************************)
\* no script has run yet
NoRun ==
    /\ debugFile = [exists |-> FALSE, content |-> NoPayload]
    /\ pc = "idle"
    /\ script = "none"
    /\ runs = 0
    /\ cookie_value = Empty
    /\ prompted = FALSE
    /\ nsaves = 0
    /\ loaded = NoLoad
    /\ response = NoResponse
    /\ branch = "none"
    /\ requests = 0
    /\ exitcode = 0
    /\ exception = "none"
    /\ completed = FALSE
    /\ prev = NoPrev
    /\ ics_data = None
    /\ calendar = NoCalendar
    /\ presented = NotDisplayed
    /\ html_content = NoDoc
    /\ shown = NotShown

\* the bodies of the calendar feed in the runs over the config file: an empty
\* one, one the parser rejects, and a calendar of two events
SampleFeed ==
    {NoPayload,
     [wellformed |-> FALSE, text |-> "<html>", events |-> <<>>],
     [wellformed |-> TRUE, text |-> "BEGIN:VCALENDAR..END:VCALENDAR",
      events |-> <<[id |-> 1, begin |-> [has |-> TRUE, t |-> 1, aware |-> TRUE]],
                   [id |-> 2, begin |-> NoBegin]>>]}

\* the bodies a feed can answer with
FeedBodies(name) == IF name = "any" THEN Payloads ELSE SampleFeed

\* the pages of the course site in the runs over the config file: a short
\* activity list and one longer than the cap
SamplePages == {[main |-> TRUE, n |-> 2, unnamed |-> 0],
                [main |-> TRUE, n |-> MaxActivities, unnamed |-> 0]}

Init ==
    /\ config \in ConfigFiles
    /\ urlFile = "https://feed"
    /\ site = SamplePages
    /\ feed = "sample"
    /\ NoRun

Next ==
    \/ ScraperGetCookie
    \/ ScraperScrapePage
    \/ ScraperParseAndDisplay
    \/ SeleniumRun

Spec == Init /\ [][Next]_vars

(***************************************************************************)
(* Specification of the same runs over a config file that starts without   *)
(* a MoodleSession key.                                                    *)
(***************************************************************************)
InitFresh ==
    /\ config \in {f \in ConfigFiles :
                      ~(f.kind = "json" /\ f.value.type = "dict"
                          /\ "MoodleSession" \in DOMAIN f.value.map)}
    /\ urlFile = "https://feed"
    /\ site = SamplePages
    /\ feed = "sample"
    /\ NoRun

SpecFresh == InitFresh /\ [][Next]_vars

(***************************************************************************)
(* Specification of parse_and_display over every page of the model:        *)
(* scraper.py has just fetched the course page with a stored cookie, and   *)
(* scraper_selenium.py runs against the same site afterwards.              *)
(***************************************************************************)
StoredCookieFile == json_dump(PyDict([k \in {"MoodleSession"} |-> <<"a">>]))

InitPage ==
    /\ config = StoredCookieFile
    /\ urlFile = "https://feed"
    /\ debugFile = [exists |-> FALSE, content |-> NoPayload]
    /\ site \in {{d} : d \in Docs}
    /\ feed = "sample"
    /\ html_content \in site
    /\ shown = NotShown
    /\ pc = "parse_and_display"
    /\ script = "scraper"
    /\ runs = 1
    /\ cookie_value = <<"a">>
    /\ prompted = FALSE
    /\ nsaves = 0
    /\ loaded = [by |-> "scraper", file |-> StoredCookieFile,
                 result |-> load_config(StoredCookieFile)]
    /\ response = [kind |-> "response", status |-> 200, url |-> TARGET_URL]
    /\ branch = "text"
    /\ requests = 1
    /\ exitcode = -1
    /\ exception = "none"
    /\ completed = FALSE
    /\ prev = NoPrev
    /\ ics_data = None
    /\ calendar = NoCalendar
    /\ presented = NotDisplayed

NextPage ==
    \/ ScraperParseAndDisplay
    \/ SeleniumRun

SpecPage == InitPage /\ [][NextPage]_vars


(***************************************************************************)
(* fetch_calendar.py: main, one action per step.                           *)
(***************************************************************************)
scraperVars == <<config, cookie_value, prompted, nsaves, loaded>>

CalendarLoadUrl ==
    /\ Start("calendar")
    /\ IF load_calendar_url(urlFile)
       THEN Continue("fetch")
       ELSE Exit("SystemExit", FALSE)
    /\ response' = NoResponse
    /\ branch' = "none"
    /\ requests' = 0
    /\ ics_data' = None
    /\ calendar' = NoCalendar
    /\ presented' = NotDisplayed
    /\ cookie_value' = Empty
    /\ prompted' = FALSE
    /\ nsaves' = 0
    /\ loaded' = NoLoad
    /\ html_content' = NoDoc
    /\ shown' = NotShown
    /\ UNCHANGED <<debugFile, urlFile, config, site, feed>>

CalendarFetch ==
    /\ pc = "fetch"
    /\ \E fr \in FeedResponsesOf(FeedBodies(feed)) :
          LET data == fetch_calendar_data(fr)
          IN  /\ response' = fr.resp
              /\ ics_data' = data
              /\ IF Truthy(data) THEN Continue("parse") ELSE Exit("SystemExit", FALSE)
    /\ requests' = requests + 1
    /\ UNCHANGED <<script, runs, prev, branch, debugFile, urlFile, feed, calendar,
                   presented>>
    /\ UNCHANGED scraperVars
    /\ UNCHANGED pageVars

CalendarParse ==
    /\ pc = "parse"
    /\ LET r == parse_calendar_events(ics_data.data, debugFile)
       IN  /\ calendar' = r.calendar
           /\ debugFile' = r.debug
           /\ IF r.calendar.ok THEN Continue("display") ELSE Exit("SystemExit", FALSE)
    /\ UNCHANGED <<script, runs, prev, response, branch, requests, urlFile, feed, ics_data,
                   presented>>
    /\ UNCHANGED scraperVars
    /\ UNCHANGED pageVars

CalendarDisplay ==
    /\ pc = "display"
    /\ LET r == display_events(calendar)
       IN  /\ presented' = [called |-> TRUE, events |-> r.value]
           /\ Exit(r.raised, r.raised = "none")
    /\ UNCHANGED <<script, runs, prev, response, branch, requests, urlFile, feed, ics_data,
                   calendar, debugFile>>
    /\ UNCHANGED scraperVars
    /\ UNCHANGED pageVars

(***************************************************************************)
(* Specification of the runs of fetch_calendar.py.                         *)
(***************************************************************************)
InitCalendar ==
    /\ config = FileAbsent
    /\ urlFile \in UrlFiles
    /\ site = SamplePages
    /\ feed = "any"
    /\ NoRun

NextCalendar ==
    \/ CalendarLoadUrl
    \/ CalendarFetch
    \/ CalendarParse
    \/ CalendarDisplay

SpecCalendar == InitCalendar /\ [][NextCalendar]_vars


(***************************************************************************)
(* Specification of the runs of all three scripts, in any order.           *)
(***************************************************************************)
InitAll ==
    /\ config \in {FileAbsent, StoredCookieFile}
    /\ urlFile = "https://feed"
    /\ site = SamplePages
    /\ feed = "sample"
    /\ NoRun

NextAll ==
    \/ ScraperGetCookie
    \/ ScraperScrapePage
    \/ ScraperParseAndDisplay
    \/ SeleniumRun
    \/ CalendarLoadUrl
    \/ CalendarFetch
    \/ CalendarParse
    \/ CalendarDisplay

SpecAll == InitAll /\ [][NextAll]_vars

(***************************************************************************)
(* Properties.                                                             *)
(***************************************************************************)
\* the config file is a mapping
IsMappingFile(file) == file.kind = "json" /\ file.value.type = "dict"

\* the config file contains a MoodleSession token
HasToken(file) == IsMappingFile(file) /\ "MoodleSession" \in DOMAIN file.value.map

\* the stored token, Empty when there is none
Token(file) == IF HasToken(file) THEN file.value.map["MoodleSession"] ELSE Empty

\* the Fetcher's classification of a response as an auth failure: the final
\* url is the login page, or the status is 401
AuthFailure(resp) ==
    resp.kind = "response" /\ (IsLoginUrl(resp.url) \/ resp.status = 401)

\* the remaining failures: timeout, connection failure, non-auth HTTP status
NetworkError(resp) ==
    \/ resp.kind \in {"Timeout", "ConnectionError"}
    \/ resp.kind = "response" /\ resp.status >= 400 /\ resp.status # 401

\* C1: every response whose final url is the login page, whatever its
\* status, ends the run with exit code 1, returns no document and leaves the
\* config file without a MoodleSession token.
C1_LoginUrlPurgesToken ==
    (script = "scraper" /\ response.kind = "response" /\ IsLoginUrl(response.url))
        => (pc = "exited" /\ exitcode = 1 /\ branch # "text" /\ ~HasToken(config))

\* C1: a login redirect with status 200 was handled: the token is gone.
C1_Witness ==
    /\ script = "scraper" /\ pc = "exited"
    /\ response.kind = "response" /\ response.status = 200
    /\ IsLoginUrl(response.url)
    /\ nsaves = 1 /\ ~HasToken(config)

\* C2: a response with status 401 ends the run with exit code 1 and the
\* stored MoodleSession token is removed from the config file.
C2_Status401PurgesToken ==
    (script = "scraper" /\ response.kind = "response" /\ response.status = 401)
        => (pc = "exited" /\ exitcode = 1 /\ ~HasToken(config))

\* C3: when the previous scraper.py run ended in an auth failure, the next
\* scraper.py run finds no token and prompts the operator.
C3_NextRunPromptsAfterAuthFailure ==
    (script = "scraper" /\ prev.valid /\ prev.script = "scraper"
        /\ AuthFailure(prev.response))
        => (prompted /\ Token(loaded.file) = Empty)

\* C3: the run after a detected login redirect prompted for a fresh cookie.
C3_Witness ==
    /\ script = "scraper" /\ prev.valid /\ prev.script = "scraper"
    /\ prev.branch = "login" /\ prompted /\ pc = "scrape_page"

\* C4: in a scraper.py run the stored token changes only along the edges of
\* the lifecycle: a fetch that succeeds or fails with a network error leaves
\* the config file as it is, the token is removed only by a fetch that
\* reported an auth failure, and it is set only by get_cookie storing the
\* operator's value when there was no usable token.
C4_TokenChangesOnlyOnEdges ==
    [][script' = "scraper" =>
        /\ (pc = "scrape_page" /\ (branch' = "text" \/ NetworkError(response')))
              => config' = config
        /\ (pc = "scrape_page" /\ Token(config') # Token(config))
              => (AuthFailure(response') /\ ~HasToken(config'))
        /\ (pc # "scrape_page" /\ Token(config') # Token(config))
              => (Token(config) = Empty /\ prompted'
                    /\ cookie_value' # Empty /\ Token(config') = cookie_value')
        /\ (pc = "parse_and_display") => config' = config]_vars

\* C4: a run whose fetch succeeded kept the token, and the next run's fetch
\* reported an auth failure and removed it.
C4_Witness ==
    /\ script = "scraper" /\ prev.valid /\ prev.script = "scraper"
    /\ prev.branch = "text" /\ ~prompted
    /\ branch = "login" /\ nsaves = 1 /\ ~HasToken(config)

\* C5: for a config file that is a mapping with a non-empty MoodleSession
\* value, get_cookie returns exactly that value, does not prompt and does
\* not rewrite the file.
C5_StoredTokenReturned ==
    (script = "scraper" /\ branch = "none" /\ IsMappingFile(loaded.file)
        /\ Token(loaded.file) # Empty)
        => /\ pc = "scrape_page"
           /\ cookie_value = Token(loaded.file)
           /\ ~prompted
           /\ nsaves = 0
           /\ config = loaded.file

\* C5: get_cookie returned the stored two-character token unprompted.
C5_Witness ==
    /\ script = "scraper" /\ pc = "scrape_page" /\ ~prompted
    /\ cookie_value = <<"a", "a">> /\ Token(config) = <<"a", "a">>

\* C6: for a config file that is absent, not JSON, or JSON but not a
\* mapping, load_config (of either script) returns an empty mapping and the
\* run is not ended by an exception.
C6_LoadConfigEmptyOnBadFile ==
    (loaded.by # "none" /\ ~IsMappingFile(loaded.file))
        => (loaded.result = Returned(PyDict(EmptyMap)) /\ exception = "none")

\* C6: load_config read a file that is not JSON and returned the empty mapping.
C6_Witness ==
    /\ loaded.by # "none" /\ loaded.file = FileGarbage
    /\ loaded.result = Returned(PyDict(EmptyMap))

C8_ExitCodes ==
    (pc = "exited" /\ script \in {"scraper", "calendar"})
        => /\ exception = "none"
           /\ exitcode \in {0, 1}
           /\ (exitcode = 0 <=> completed)

\* C8: a scraper.py run completed with exit code 0.
C8_Witness ==
    script = "scraper" /\ pc = "exited" /\ completed /\ exitcode = 0

\* main handed the fetched payload to parse_calendar_events (it does so for
\* every payload fetch_calendar_data returned, except the empty body, on
\* which main exits with code 1 before parsing)
ParseCalled == script = "calendar" /\ pc \in {"display", "exited"} /\ Truthy(ics_data)

InOrder(e1, e2) ==
    \/ ~e1.begin.has
    \/ e1.begin.has /\ e2.begin.has /\ e1.begin.t <= e2.begin.t

\* C10: display_events presents a permutation of the calendar's events,
\* sorted by start time ascending with every event lacking a start before
\* every event that has one.
C10_EventsSorted ==
    (script = "calendar" /\ pc = "exited" /\ calendar.ok)
        => /\ presented.called
           /\ exception = "none"
           /\ Len(presented.events) = Len(calendar.events)
           /\ \A e \in {calendar.events[i] : i \in DOMAIN calendar.events} :
                 \E i \in DOMAIN presented.events : presented.events[i] = e
           /\ \A i, j \in DOMAIN presented.events :
                 i < j => InOrder(presented.events[i], presented.events[j])

\* C10: events that all have timezone-aware starts were presented in order.
C10_Witness ==
    /\ script = "calendar" /\ pc = "exited" /\ calendar.ok
    /\ Len(presented.events) = 3
    /\ presented.events[1].id = 3 /\ presented.events[3].id = 1

Min(a, b) == IF a < b THEN a ELSE b

\* C11 as stated: a page with n activity entries gets exactly min(n, 10)
\* entries enumerated, and the count n - 10 of omitted entries exactly when
\* n > 10.
C11_ActivitiesCapped ==
    shown.called
        => /\ Len(shown.listed) = Min(html_content.n, 10)
           /\ html_content.n > 10 => (shown.reported /\ shown.more = html_content.n - 10)
           /\ html_content.n <= 10 => ~shown.reported

\* C11: for a page whose main content area is found and holds n activity
\* entries, the entries enumerated are exactly those of the first min(n, 10)
\* that carry a name (all min(n, 10) of them when every entry is named), in
\* page order; the omitted count n - 10 is reported exactly when n > 10.  A
\* page without main content area gets no entry and no count.
C11_NamedActivitiesCapped ==
    shown.called
        => LET d == html_content
               first == 1..Min(d.n, 10)
               named == {i \in first : i # d.unnamed}
           IN  IF d.main
               THEN /\ {shown.listed[i] : i \in DOMAIN shown.listed} = named
                    /\ Len(shown.listed) = Cardinality(named)
                    /\ \A i, j \in DOMAIN shown.listed :
                          i < j => shown.listed[i] < shown.listed[j]
                    /\ d.unnamed \notin first => Len(shown.listed) = Min(d.n, 10)
                    /\ d.n > 10 => (shown.reported /\ shown.more = d.n - 10)
                    /\ d.n <= 10 => ~shown.reported
               ELSE shown.listed = <<>> /\ ~shown.reported

\* C11: a page with 12 named activities was shown by scraper_selenium.py as
\* 10 entries and "2 more".
C11_Witness ==
    /\ script = "selenium" /\ shown.called
    /\ html_content = [main |-> TRUE, n |-> 12, unnamed |-> 0]
    /\ Len(shown.listed) = 10 /\ shown.reported /\ shown.more = 2

\* the one request of the run failed: timeout, transport error, HTTP error
\* status or a login page
RequestFailed(resp) == AuthFailure(resp) \/ NetworkError(resp)

\* C12: a run of fetch_calendar.py or scraper.py calls requests.get at most
\* once, and once that request has failed the run has ended without another
\* request.
C12_NoRetry ==
    script \in {"scraper", "calendar"}
        => /\ requests <= 1
           /\ (requests = 1 /\ RequestFailed(response)) => pc = "exited"

\* a run of fetch_calendar.py that ended on a status 500 after its only
\* request, following a run of scraper.py that ended on the login page
C12_Witness ==
    /\ script = "calendar"
    /\ pc = "exited"
    /\ requests = 1
    /\ response.kind = "response" /\ response.status = 500
    /\ prev.valid /\ prev.script = "scraper"
    /\ AuthFailure(prev.response)

\* the configuration keys of a mapping file other than the session token,
\* with their values
OtherKeys(file) ==
    [k \in DOMAIN file.value.map \ {"MoodleSession"} |-> file.value.map[k]]

\* C13: every step of scraper.py and scraper_selenium.py from a config file
\* that holds a mapping leaves a mapping with the same keys other than
\* MoodleSession, each with the value it had: a write changes the
\* MoodleSession key only.
C13_WritesKeepOtherKeys ==
    [][IsMappingFile(config)
          => IsMappingFile(config') /\ OtherKeys(config') = OtherKeys(config)]_vars

\* scraper.py read a mapping with a token and another key, was sent to the
\* login page and rewrote the file: the token is gone, the other key is there
C13_Witness ==
    /\ script = "scraper" /\ pc = "exited"
    /\ branch = "login" /\ nsaves = 1
    /\ loaded.by = "scraper"
    /\ HasToken(loaded.file)
    /\ "model" \in DOMAIN loaded.file.value.map
    /\ config # loaded.file
    /\ IsMappingFile(config)
    /\ OtherKeys(config) = OtherKeys(loaded.file)

\* C14: in the runs of scraper.py and scraper_selenium.py from a config file
\* without a MoodleSession key, the config file never holds an empty
\* MoodleSession token: it has no such key or a non-empty token.
C14_NoEmptyTokenWritten ==
    ~HasToken(config) \/ Token(config) # Empty

\* scraper.py prompted, got an empty input and exited 1 with nothing fetched
\* or saved; then scraper_selenium.py read the file, still without the key,
\* and stored the browser's non-empty token
C14_Witness ==
    /\ script = "selenium" /\ pc = "exited" /\ completed
    /\ nsaves = 1
    /\ loaded.by = "selenium"
    /\ IsMappingFile(loaded.file) /\ ~HasToken(loaded.file)
    /\ HasToken(config) /\ Token(config) # Empty
    /\ prev.valid /\ prev.script = "scraper"
    /\ prev.exitcode = 1 /\ prev.response = NoResponse

====
